---- MODULE Spec2Model ----
(***************************************************************************)
(* Model of uvspec/logfile.py: the module's import-time dependency checks  *)
(* and the Logfile class (constructor and parse()).  Each statement of     *)
(* parse() is one step, so that the order of its effects can be observed.  *)
(***************************************************************************)
EXTENDS Integers, Sequences, FiniteSets

\* ---------------------------------------------------------------- bounds
MaxStates == 2      \* most excited states a file holds
MaxCalls == 3       \* most parse() calls made by the caller
MaxWrites == 1      \* most changes the environment makes to the file system

\* ----------------------------------------------------------- environment
None == "None"
Paths == {"a.log", "b.log"}
Names == Paths \cup {None}

\* Exception kinds the external library may raise.
LibExc == {"TypeError", "ValueError"}

\* Excited state i of a file of variant v: <<energy, oscillator strength>>.
Variants == {1, 2}
ExcitedState(v, i) == <<(100 * v) + i, (10 * v) + i>>
StateSeq(v, k) == [i \in 1..k |-> ExcitedState(v, i)]
StateSeqs == {StateSeq(v, k) : v \in Variants, k \in 0..MaxStates}

\* What is on disk under a path.  open: what ccopen() does with the file
\* ("parser", "none" for an unrecognised format, or an exception kind);
\* extract: what the parser's parse() does ("data" or an exception kind);
\* hasE / hasO: whether the result object carries etenergies / etoscs
\* (cclib sets only the attributes it found; reading a missing one raises
\* AttributeError).  When both are present each has one entry per state.
Absent == [open |-> "absent", extract |-> "absent", hasE |-> FALSE,
           hasO |-> FALSE, states |-> <<>>]
Parsable == {c \in [open : {"parser"}, extract : {"data"}, hasE : BOOLEAN,
                     hasO : BOOLEAN, states : StateSeqs] :
                 ~c.hasE => c.states = <<>>}
Valid == {c \in Parsable : c.hasE /\ c.hasO}
Unrecognised == [open |-> "none", extract |-> "absent", hasE |-> FALSE,
                 hasO |-> FALSE, states |-> <<>>]
OpenFails == [open : LibExc, extract : {"absent"}, hasE : {FALSE},
              hasO : {FALSE}, states : {<<>>}]
ExtractFails == [open : {"parser"}, extract : LibExc, hasE : {FALSE},
                 hasO : {FALSE}, states : {<<>>}]
Contents == Parsable \cup {Unrecognised} \cup OpenFails \cup ExtractFails

\* ------------------------------------------------------ external library
\* cclib result object: the arrays it reports for a file.
Etenergies(c) == [i \in 1..Len(c.states) |-> c.states[i][1]]
Etoscs(c) == [i \in 1..Len(c.states) |-> c.states[i][2]]
NoData == [hasE |-> FALSE, hasO |-> FALSE, etenergies |-> <<>>, etoscs |-> <<>>]
LibParse(c) == [hasE |-> c.hasE, hasO |-> c.hasO,
                etenergies |-> IF c.hasE THEN Etenergies(c) ELSE <<>>,
                etoscs |-> IF c.hasO THEN Etoscs(c) ELSE <<>>]
NoLogfile == [isNone |-> TRUE, content |-> Absent, level |-> "unset"]
LibCcopen(c) == [isNone |-> (c.open = "none"), content |-> c, level |-> "INFO"]

VARIABLES
    pc,                     \* position of the single thread of control
    numpyOK, cclibOK,       \* whether each library can be imported
    fs,                     \* the file system: path -> content
    name,                   \* Logfile.name
    excited_state_energy,   \* Logfile.excited_state_energy
    oscillator_strength,    \* Logfile.oscillator_strength
    logfile, data,          \* locals of parse()
    exc,                    \* exception in flight inside the try block
    errors,                 \* messages passed to error(), in order
    events,                 \* what the current (or last) parse() call did
    outcome,                \* how the last parse() call ended
    propagated,             \* exception that left the last parse() call
    preE, preO,             \* the two sequences when the call started
    preOutcome, preContent, \* outcome and parsed content of the call before
    calls, writes

vars == <<pc, numpyOK, cclibOK, fs, name, excited_state_energy,
          oscillator_strength, logfile, data, exc, errors, events, outcome,
          propagated, preE, preO, preOutcome, preContent, calls, writes>>

obj == <<name, excited_state_energy, oscillator_strength>>
locals == <<logfile, data>>
env == <<numpyOK, cclibOK, fs, writes>>
ghost == <<preE, preO, preOutcome, preContent>>

\* ------------------------------------------------------------- messages
\* A message is the sequence of its parts; the path substituted for %s is
\* one part, so that "the message contains the path" can be asked.
NumpyMsg == <<"The ", "numpy", " package is required", "numpy",
              " is free to download at http://www.numpy.org">>
CclibMsg_SameAsNumpy == NumpyMsg
CclibMsg == <<"The ", "cclib", " package is required", "cclib",
              " is free to download at http://cclib.sf.net">>
NotFoundMsg_NoPath(n) == <<"The logfile ", " could not be found">>
NotFoundMsg(n) == <<"The logfile ", n, " could not be found">>
NeedFilenameMsg == <<"The parse() method requires the filename argument ",
                     "in Logfile">>
Contains(msg, s) == \E i \in 1..Len(msg) : msg[i] = s

\* error(message) of uvspec.config.settings: report and stop the process.
Error(msg) ==
    /\ errors' = Append(errors, msg)
    /\ pc' = "halted"

Init ==
    /\ pc = "import_numpy"
    /\ numpyOK \in BOOLEAN
    /\ cclibOK \in BOOLEAN
    /\ fs \in [Paths -> Contents \cup {Absent}]
    /\ name = None
    /\ excited_state_energy = <<>>
    /\ oscillator_strength = <<>>
    /\ logfile = NoLogfile
    /\ data = NoData
    /\ exc = "none"
    /\ errors = <<>>
    /\ events = <<>>
    /\ outcome = "none"
    /\ propagated = "none"
    /\ preE = <<>>
    /\ preO = <<>>
    /\ preOutcome = "none"
    /\ preContent = Absent
    /\ calls = 0
    /\ writes = 0

\* ------------------------------------------------------------ module load
ImportNumpy ==
    /\ pc = "import_numpy"
    /\ IF numpyOK THEN pc' = "import_cclib" /\ UNCHANGED errors
                  ELSE Error(NumpyMsg)
    /\ UNCHANGED <<env, obj, locals, exc, events, outcome, propagated, ghost, calls>>

ImportCclib ==
    /\ pc = "import_cclib"
    /\ IF cclibOK THEN pc' = "loaded" /\ UNCHANGED errors
                  ELSE Error(CclibMsg)
    /\ UNCHANGED <<env, obj, locals, exc, events, outcome, propagated, ghost, calls>>

\* ------------------------------------------------------- Logfile.__init__
Construct(filename) ==
    /\ pc = "loaded"
    /\ name' = filename
    /\ excited_state_energy' = <<>>
    /\ oscillator_strength' = <<>>
    /\ pc' = "idle"
    /\ UNCHANGED <<env, locals, exc, errors, events, outcome, propagated, ghost, calls>>

\* ---------------------------------------------------------- Logfile.parse
Ev(e) == events' = Append(events, e)
Raise(kind) == exc' = kind /\ pc' = "except"

\* The caller invokes parse(): a fresh frame, and the record of the call before.
CallParse ==
    /\ pc = "idle"
    /\ calls < MaxCalls
    /\ calls' = calls + 1
    /\ pc' = "exists"
    /\ events' = <<>>
    /\ logfile' = NoLogfile
    /\ data' = NoData
    /\ exc' = "none"
    /\ outcome' = "running"
    /\ propagated' = "none"
    /\ preE' = excited_state_energy
    /\ preO' = oscillator_strength
    /\ preOutcome' = outcome
    /\ preContent' = IF outcome = "ok" THEN logfile.content ELSE Absent
    /\ UNCHANGED <<env, obj, errors>>

\* os.path.exists(self.name): a TypeError for None, else whether it is on disk.
ExistsRaises_Never(n) == FALSE
ExistsRaises(n) == n = None
PathExists(n) == n \in Paths /\ fs[n] # Absent

ExistsStep ==
    /\ pc = "exists"
    /\ Ev("exists")
    /\ IF ExistsRaises(name) THEN Raise("TypeError")
       ELSE /\ pc' = IF PathExists(name) THEN "ccopen" ELSE "notfound"
            /\ UNCHANGED exc
    /\ UNCHANGED <<env, obj, locals, errors, outcome, propagated, ghost, calls>>

AfterCcopen_SkipSetLevel == "parse"
AfterCcopen == "setLevel"

CcopenStep ==
    /\ pc = "ccopen"
    /\ Ev("ccopen")
    /\ IF fs[name].open \in LibExc
       THEN Raise(fs[name].open) /\ UNCHANGED logfile
       ELSE /\ logfile' = LibCcopen(fs[name])
            /\ pc' = AfterCcopen
            /\ UNCHANGED exc
    /\ UNCHANGED <<env, obj, data, errors, outcome, propagated, ghost, calls>>

SetLevelStep ==
    /\ pc = "setLevel"
    /\ Ev("setLevel")
    /\ IF logfile.isNone
       THEN Raise("AttributeError") /\ UNCHANGED logfile
       ELSE /\ logfile' = [logfile EXCEPT !.level = "ERROR"]
            /\ pc' = "parse"
            /\ UNCHANGED exc
    /\ UNCHANGED <<env, obj, data, errors, outcome, propagated, ghost, calls>>

ParseStep ==
    /\ pc = "parse"
    /\ Ev("parse")
    /\ IF logfile.isNone THEN Raise("AttributeError") /\ UNCHANGED data
       ELSE IF logfile.content.extract \in LibExc
       THEN Raise(logfile.content.extract) /\ UNCHANGED data
       ELSE /\ data' = LibParse(logfile.content)
            /\ pc' = "setE"
            /\ UNCHANGED exc
    /\ UNCHANGED <<env, obj, logfile, errors, outcome, propagated, ghost, calls>>

\* setattr(self, attr, value): the attribute is rebound to the value.
StoreAttr_Append(old, new) == old \o new
StoreAttr(old, new) == new

EnergySource_Swapped(d) == d.etoscs
EnergySource(d) == d.etenergies

SetEStep ==
    /\ pc = "setE"
    /\ Ev("setE")
    /\ IF ~data.hasE
       THEN Raise("AttributeError") /\ UNCHANGED excited_state_energy
       ELSE /\ excited_state_energy' = StoreAttr(excited_state_energy, EnergySource(data))
            /\ pc' = "setO"
            /\ UNCHANGED exc
    /\ UNCHANGED <<env, name, oscillator_strength, locals, errors, outcome,
                   propagated, ghost, calls>>

SetOStep ==
    /\ pc = "setO"
    /\ Ev("setO")
    /\ IF ~data.hasO
       THEN Raise("AttributeError") /\ UNCHANGED <<oscillator_strength, outcome>>
       ELSE /\ oscillator_strength' = StoreAttr(oscillator_strength, data.etoscs)
            /\ pc' = "idle"
            /\ outcome' = "ok"
            /\ UNCHANGED exc
    /\ UNCHANGED <<env, name, excited_state_energy, locals, errors,
                   propagated, ghost, calls>>

NotFoundStep_Silent ==
    /\ pc = "notfound"
    /\ pc' = "idle"
    /\ outcome' = "returned"
    /\ UNCHANGED <<env, obj, locals, exc, errors, events, propagated, ghost, calls>>

NotFoundStep ==
    /\ pc = "notfound"
    /\ Ev("error")
    /\ Error(NotFoundMsg(name))
    /\ outcome' = "fatal"
    /\ UNCHANGED <<env, obj, locals, exc, propagated, ghost, calls>>

\* except TypeError: the handler covers the whole body of the try block.
Catches(kind) == kind = "TypeError"

ExceptStep ==
    /\ pc = "except"
    /\ IF Catches(exc)
       THEN /\ Ev("error")
            /\ Error(NeedFilenameMsg)
            /\ outcome' = "fatal"
            /\ UNCHANGED propagated
       ELSE /\ pc' = "idle"
            /\ outcome' = "raised"
            /\ propagated' = exc
            /\ UNCHANGED <<errors, events>>
    /\ UNCHANGED <<env, obj, locals, exc, ghost, calls>>

\* ------------------------------------------------------------ environment
\* Between two calls the file under a path may be created, replaced or removed.
WriteFile(p, c) ==
    /\ pc = "idle"
    /\ writes < MaxWrites
    /\ c # fs[p]
    /\ fs' = [fs EXCEPT ![p] = c]
    /\ writes' = writes + 1
    /\ UNCHANGED <<pc, numpyOK, cclibOK, obj, locals, exc, errors, events,
                   outcome, propagated, ghost, calls>>

Next ==
    \/ ImportNumpy
    \/ ImportCclib
    \/ \E f \in Names : Construct(f)
    \/ CallParse
    \/ ExistsStep
    \/ CcopenStep
    \/ SetLevelStep
    \/ ParseStep
    \/ SetEStep
    \/ SetOStep
    \/ NotFoundStep
    \/ ExceptStep
    \/ \E p \in Paths, c \in Contents \cup {Absent} : WriteFile(p, c)

Spec == Init /\ [][Next]_vars

\* ------------------------------------------------------------ vocabulary
Count(seq, e) == Cardinality({i \in 1..Len(seq) : seq[i] = e})
IsPrefix(s, t) == Len(s) <= Len(t) /\ \A i \in 1..Len(s) : s[i] = t[i]
InCall == pc \in {"exists", "ccopen", "setLevel", "parse", "setE", "setO",
                  "notfound", "except"}
Ended == calls > 0 /\ pc \in {"idle", "halted"}
Constructed == pc = "idle" \/ calls > 0
Loading == pc \in {"import_numpy", "import_cclib"}
SuccessOrder == <<"exists", "ccopen", "setLevel", "parse", "setE", "setO">>
Body(ev) == IF Len(ev) > 0 /\ ev[Len(ev)] = "error"
            THEN SubSeq(ev, 1, Len(ev) - 1) ELSE ev
Reported(lib) == \E i \in 1..Len(errors) : Contains(errors[i], lib)

\* C1: with a path that is set but not on disk, parse() reports a message
\* containing that exact path through error() and never reaches the parser.
C1_MissingFileFatal ==
    (calls > 0 /\ pc # "idle" /\ name # None /\ ~PathExists(name)) =>
        /\ pc \in {"exists", "notfound", "halted"}
        /\ ~Contains(events, "ccopen")
        /\ ~Contains(events, "parse")
        /\ logfile = NoLogfile
        /\ data = NoData
        /\ pc = "halted" =>
              /\ events = <<"exists", "error">>
              /\ Len(errors) = 1
              /\ Contains(errors[1], name)
              /\ errors[1] # NeedFilenameMsg
C1_Witness ==
    /\ pc = "halted"
    /\ name \in Paths
    /\ ~PathExists(name)
    /\ events = <<"exists", "error">>

\* C2: a Logfile built without a path has two empty sequences, and parse()
\* on it ends in error() with the filename-required message (the TypeError
\* is caught), not with the missing-file message.
C2_UnsetPathFatal ==
    (Constructed /\ name = None) =>
        /\ excited_state_energy = <<>>
        /\ oscillator_strength = <<>>
        /\ pc \in {"idle", "exists", "except", "halted"}
        /\ pc = "idle" => calls = 0
        /\ pc = "except" => exc = "TypeError"
        /\ pc = "halted" =>
              /\ events = <<"exists", "error">>
              /\ errors = <<NeedFilenameMsg>>
              /\ ~Contains(errors[1], name)
C2_Witness ==
    /\ pc = "halted"
    /\ calls > 0
    /\ name = None
    /\ errors = <<NeedFilenameMsg>>

\* C3: after a successful parse() of a file with k excited states both
\* sequences have length k and hold, element for element, the etenergies
\* and etoscs the library reports for that file.
C3_SuccessCopies ==
    (pc = "idle" /\ outcome = "ok") =>
        /\ excited_state_energy = data.etenergies
        /\ oscillator_strength = data.etoscs
        /\ Len(excited_state_energy) = Len(logfile.content.states)
        /\ Len(oscillator_strength) = Len(logfile.content.states)
        /\ \A i \in 1..Len(logfile.content.states) :
              <<excited_state_energy[i], oscillator_strength[i]>>
                  = logfile.content.states[i]
        /\ writes = 0 => logfile.content = fs[name]
C3_Witness ==
    /\ pc = "idle"
    /\ outcome = "ok"
    /\ Len(excited_state_energy) >= 2

\* C4: whenever no parse() call is in progress the two sequences have the
\* same length, whatever calls (successful or failing) came before.
C4_SameLength ==
    pc \in {"idle", "halted"} =>
        Len(excited_state_energy) = Len(oscillator_strength)

\* C5: a second successful parse() of an unchanged file leaves both
\* sequences as the first left them, and it does run the parser again.
C5_Idempotent ==
    (pc = "idle" /\ outcome = "ok" /\ preOutcome = "ok"
        /\ preContent = logfile.content) =>
        /\ excited_state_energy = preE
        /\ oscillator_strength = preO
        /\ events = SuccessOrder
C5_Witness ==
    /\ pc = "idle"
    /\ outcome = "ok"
    /\ preOutcome = "ok"
    /\ preContent = logfile.content
    /\ calls >= 2
    /\ Len(excited_state_energy) >= 1

\* C6: a failure of the external library, of whatever kind, leaves parse()
\* unmodified and is never turned into a call of error().
C6_LibraryFailuresPropagate ==
    (Ended /\ Contains(events, "ccopen") /\ outcome # "ok") =>
        /\ pc = "idle"
        /\ outcome = "raised"
        /\ propagated = exc
        /\ ~Contains(events, "error")
        /\ errors = <<>>

\* C7: a parse() call reports an unset or missing path through error()
\* exactly once and stops there; nothing follows the report, and a
\* successful call reports nothing.
C7_FatalOnce ==
    /\ Count(events, "error") <= 1
    /\ Len(errors) <= 1
    /\ Contains(events, "error") =>
          /\ events[Len(events)] = "error"
          /\ pc = "halted"
          /\ Len(errors) = 1
    /\ (Ended /\ ~Contains(events, "ccopen")) =>
          /\ Count(events, "error") = 1
          /\ pc = "halted"
    /\ (calls > 0 /\ pc = "halted" /\ (name = None \/ ~PathExists(name))) =>
          /\ Count(events, "error") = 1
          /\ excited_state_energy = preE
          /\ oscillator_strength = preO
    /\ outcome = "ok" =>
          /\ ~Contains(events, "error")
          /\ errors = <<>>
C7_Witness ==
    /\ pc = "halted"
    /\ calls >= 2
    /\ ~Contains(events, "ccopen")
    /\ Len(preE) >= 1

\* C8 as stated: once the module is loaded, numpy is named in a report
\* exactly when numpy cannot be imported, and cclib exactly when ccopen
\* cannot be imported.
C8_PerLibraryReport ==
    ~Loading =>
        /\ Reported("numpy") <=> ~numpyOK
        /\ Reported("cclib") <=> ~cclibOK
\* C8 as amended: numpy is named exactly when numpy cannot be imported;
\* cclib is named exactly when numpy can be imported and ccopen cannot;
\* no report names both, and with both present the load reports nothing.
C8_FirstMissingReported ==
    ~Loading =>
        /\ Reported("numpy") <=> ~numpyOK
        /\ Reported("cclib") <=> (numpyOK /\ ~cclibOK)
        /\ \A i \in 1..Len(errors) :
              ~(Contains(errors[i], "numpy") /\ Contains(errors[i], "cclib"))
        /\ (numpyOK /\ cclibOK /\ calls = 0) => errors = <<>>
        /\ pc = "loaded" => (numpyOK /\ cclibOK)
C8_Witness ==
    /\ pc = "halted"
    /\ numpyOK
    /\ ~cclibOK
    /\ Reported("cclib")

\* C9: parse() runs its steps in the order exists, ccopen, setLevel, parse,
\* assignments; extraction only ever runs on a parser whose threshold is
\* ERROR, and neither sequence is assigned before extraction has returned.
C9_StepOrder ==
    /\ IsPrefix(Body(events), SuccessOrder)
    /\ pc = "parse" => (~logfile.isNone /\ logfile.level = "ERROR")
    /\ Contains(events, "parse") => logfile.level = "ERROR"
    /\ (InCall /\ ~Contains(events, "parse")) =>
          /\ excited_state_energy = preE
          /\ oscillator_strength = preO
          /\ data = NoData
    /\ (pc = "idle" /\ outcome = "ok") => events = SuccessOrder
C9_Witness ==
    /\ pc = "idle"
    /\ outcome = "ok"
    /\ events = SuccessOrder
    /\ logfile.level = "ERROR"

\* C10: a parse() call that does not complete successfully leaves both
\* sequences exactly as they were when it started.
C10_FailedCallChangesNothing ==
    (Ended /\ outcome # "ok") =>
        /\ excited_state_energy = preE
        /\ oscillator_strength = preO
====
